---- MODULE Spec2Model ----
(***************************************************************************)
(* Model of scripts/render.py: the line wrapper (wrap_lines over           *)
(* textwrap.wrap), the document parser (parse_markdown) and the command    *)
(* line run (module imports, main, build_video, print_summary).            *)
(*                                                                         *)
(* A Python str is a sequence of one-character strings, so that slicing,   *)
(* splitting, stripping and joining are computed character by character.   *)
(***************************************************************************)
EXTENDS Integers, Sequences, FiniteSets, TLC

VARIABLES
    \* one call of wrap_lines
    text, max_chars, max_lines, wpc, wrapped,
    \* one call of parse_markdown
    header, body_lines, content, ppc, parsed,
    \* one run of the command line
    pc,          \* where the run is
    argv_len,    \* len(sys.argv)
    imported,    \* how many of the dependencies are imported
    exit_codes,  \* the exit statuses the process has ended with
    cause,       \* what made the run fail, "none" while nothing has
    stderr,      \* what main or _missing_dependency printed to stderr
    log,         \* the steps taken, in order
    layout,      \* cfg["layout"] of config/style.yaml
    source,      \* the text of the input file
    doc,         \* what parse_markdown returned
    duration,    \* seconds per slide
    clips,       \* the clips composed so far
    video,       \* the concatenated video
    bgm_mix,     \* what happened to the audio
    output,      \* the .mp4 file
    summary,     \* what print_summary printed to stdout
    last_wrap    \* the last call of wrap_lines by create_slide

wrapVars == <<text, max_chars, max_lines, wpc, wrapped>>
parseVars == <<header, body_lines, content, ppc, parsed>>
cliVars == <<pc, argv_len, imported, exit_codes, cause, stderr, log, layout, source, doc,
             duration, clips, video, bgm_mix, output, summary, last_wrap>>
vars == <<wrapVars, parseVars, cliVars>>

\* ------------------------------------------------------------------ bounds
\* Longest text handed to wrap_lines in the wrapper specification.
MaxLen == 5
\* Largest max_chars and max_lines tried in the wrapper specification.
MaxWidth == 4
MaxLines == 3
\* Most lines in the body of a document handed to parse_markdown.
MaxBodyLines == 3
\* Largest len(sys.argv) and most body lines of a document in a run.
MaxArgv == 3
MaxRunLines == 3

\* ------------------------------------------------------------- characters
\* The characters texts are built from: a letter, a space, a hyphen and a
\* line break.  textwrap treats them differently, nothing else matters to it.
WrapAlphabet == {"a", " ", "-", "\n"}
\* string.whitespace restricted to the characters of the model
Whitespace == {" ", "\n"}
\* [^\d\W] and [\w!"'&.,?] restricted to the characters of the model
Letter == {"a", "b"}
\* The one-character string U+2026 (HORIZONTAL ELLIPSIS): one element of a text.
ellipsis == "U+2026"

RECURSIVE Texts(_, _)
Texts(alphabet, n) ==
    IF n = 0 THEN {<<>>}
    ELSE LET shorter == Texts(alphabet, n - 1)
         IN  shorter \cup {Append(t, c) : t \in shorter, c \in alphabet}

At(t, i) == IF i \in 1..Len(t) THEN t[i] ELSE ""

RECURSIVE RunLen(_, _, _)
RunLen(t, p, S) ==
    IF p <= Len(t) /\ t[p] \in S THEN 1 + RunLen(t, p + 1, S) ELSE 0

RECURSIVE Join(_)
Join(parts) == IF parts = <<>> THEN <<>> ELSE Head(parts) \o Join(Tail(parts))

IsBlank(s) == \A i \in 1..Len(s) : s[i] \in Whitespace

\* ----------------------------------------------------------- textwrap.wrap
\* TextWrapper._munge_whitespace: every whitespace character becomes a space.
munge_whitespace(t) ==
    [i \in 1..Len(t) |-> IF t[i] \in Whitespace THEN " " ELSE t[i]]

\* (?=-{2,}\w): at least two hyphens at p, the whole run followed by a word
\* character.
EmDashAhead(t, p) ==
    LET r == RunLen(t, p, {"-"})
    IN  r >= 2 /\ At(t, p + r) \in Letter

\* The hyphen at h ends a hyphenated-word chunk:
\*   -(?: (?<=lt{2}-) | (?<=lt-lt-)) (?= lt -? lt)
HyphenBreak(t, h) ==
    /\ At(t, h) = "-"
    /\ \/ At(t, h - 2) \in Letter /\ At(t, h - 1) \in Letter
       \/ At(t, h - 3) \in Letter /\ At(t, h - 2) = "-" /\ At(t, h - 1) \in Letter
    /\ At(t, h + 1) \in Letter
    /\ \/ At(t, h + 2) \in Letter
       \/ At(t, h + 2) = "-" /\ At(t, h + 3) \in Letter

\* nws+? followed by the first alternative that matches: the length of the
\* word chunk that starts at p, trying k characters first.
RECURSIVE WordLen(_, _, _)
WordLen(t, p, k) ==
    IF HyphenBreak(t, p + k) THEN k + 1
    ELSE IF p + k > Len(t) \/ t[p + k] \in Whitespace THEN k
    ELSE IF t[p + k - 1] \in Letter /\ EmDashAhead(t, p + k) THEN k
    ELSE WordLen(t, p, k + 1)

\* One match of wordsep_re at p: whitespace run, em-dash, or word.
MatchLen(t, p) ==
    IF t[p] \in Whitespace THEN RunLen(t, p, Whitespace)
    ELSE IF At(t, p - 1) \in Letter /\ EmDashAhead(t, p) THEN RunLen(t, p, {"-"})
    ELSE WordLen(t, p, 1)

\* TextWrapper._split with break_on_hyphens: the chunks of t from p on.
RECURSIVE split(_, _)
split(t, p) ==
    IF p > Len(t) THEN <<>>
    ELSE LET n == MatchLen(t, p)
         IN  <<SubSeq(t, p, p + n - 1)>> \o split(t, p + n)

split_chunks(t) == split(munge_whitespace(t), 1)

RECURSIVE SumLen(_)
SumLen(chunks) == IF chunks = <<>> THEN 0 ELSE Len(Head(chunks)) + SumLen(Tail(chunks))

\* The inner loop of _wrap_chunks: chunks are put on the current line while
\* they fit.
RECURSIVE FillLine(_, _, _)
FillLine(chunks, cur_line, width) ==
    IF chunks # <<>> /\ SumLen(cur_line) + Len(Head(chunks)) <= width
    THEN FillLine(Tail(chunks), Append(cur_line, Head(chunks)), width)
    ELSE [cur_line |-> cur_line, chunks |-> chunks]

\* chunk.rfind('-', 0, space_left), as a 0-based index, -1 when there is none
RECURSIVE rfind_hyphen(_, _)
rfind_hyphen(chunk, hi) ==
    IF hi <= 0 THEN -1
    ELSE IF hi <= Len(chunk) /\ chunk[hi] = "-" THEN hi - 1
    ELSE rfind_hyphen(chunk, hi - 1)

\* TextWrapper._handle_long_word with break_long_words and break_on_hyphens:
\* how many characters of the chunk go onto the current line.
handle_long_word(chunk, cur_len, width) ==
    LET space_left == IF width < 1 THEN 1 ELSE width - cur_len
        hyphen == rfind_hyphen(chunk, space_left)
    IN  IF /\ Len(chunk) > space_left
           /\ hyphen > 0
           /\ \E i \in 1..hyphen : chunk[i] # "-"
        THEN hyphen + 1
        ELSE space_left

\* TextWrapper._wrap_chunks for width >= 1 (drop_whitespace, no max_lines, no
\* indent): one pass of the outer loop per line.
RECURSIVE wrap_chunks(_, _, _)
wrap_chunks(chunks, lines, width) ==
    IF chunks = <<>> THEN lines
    ELSE
      LET start == IF IsBlank(Head(chunks)) /\ lines # <<>> THEN Tail(chunks) ELSE chunks
          fill == FillLine(start, <<>>, width)
          long == fill.chunks # <<>> /\ Len(Head(fill.chunks)) > width
          end == IF long
                 THEN handle_long_word(Head(fill.chunks), SumLen(fill.cur_line), width)
                 ELSE 0
          cur == IF long
                 THEN Append(fill.cur_line, SubSeq(Head(fill.chunks), 1, end))
                 ELSE fill.cur_line
          rest == IF long
                  THEN <<SubSeq(Head(fill.chunks), end + 1, Len(Head(fill.chunks)))>>
                       \o Tail(fill.chunks)
                  ELSE fill.chunks
          kept == IF cur # <<>> /\ IsBlank(cur[Len(cur)])
                  THEN SubSeq(cur, 1, Len(cur) - 1)
                  ELSE cur
      IN  wrap_chunks(rest, IF kept # <<>> THEN Append(lines, Join(kept)) ELSE lines, width)

\* textwrap.wrap(text, width=width) for width >= 1
textwrap_wrap(t, width) == wrap_chunks(split_chunks(t), <<>>, width)

Min(a, b) == IF a < b THEN a ELSE b
Max(a, b) == IF a > b THEN a ELSE b

\* s[:k] of Python for k >= 0
Prefix(s, k) == SubSeq(s, 1, Min(k, Len(s)))

\* ------------------------------------------------------------- wrap_lines
\* raw_lines without the "or [text]" fallback
raw_lines_no_fallback(t, w) == textwrap_wrap(t, w)

\* raw_lines = textwrap.wrap(text, width=max_chars) or [text], max_chars >= 1
raw_lines(t, w) ==
    LET filled == textwrap_wrap(t, w)
    IN  IF filled = <<>> THEN <<t>> ELSE filled

\* trimmed without the [:max_lines] slice: the ellipsis goes onto the last
\* raw line
trimmed_keeps_all(raw, w, n) ==
    [raw EXCEPT ![Len(raw)] = Prefix(raw[Len(raw)], Max(0, w - 1)) \o <<ellipsis>>]

\* trimmed with the last line cut at max_chars instead of max_chars - 1
trimmed_cut_at_width(raw, w, n) ==
    LET kept == SubSeq(raw, 1, n)
    IN  [kept EXCEPT ![n] = Prefix(kept[n], Max(0, w)) \o <<ellipsis>>]

\* trimmed = raw_lines[:max_lines]; trimmed[-1] = trimmed[-1][:max(0, max_chars - 1)] + ellipsis
trimmed(raw, w, n) ==
    LET kept == SubSeq(raw, 1, n)
    IN  [kept EXCEPT ![n] = Prefix(kept[n], Max(0, w - 1)) \o <<ellipsis>>]

\* wrap_lines(text, max_chars, max_lines), max_lines >= 1.  textwrap.wrap
\* raises ValueError("invalid width") when max_chars <= 0.
wrap_lines(t, w, n) ==
    IF w <= 0 THEN [raised |-> "ValueError", lines |-> <<>>]
    ELSE LET raw == raw_lines(t, w)
         IN  [raised |-> "none",
              lines |-> IF Len(raw) <= n THEN raw ELSE trimmed(raw, w, n)]

\* ------------------------------------------------------- str operations
\* s.find(sep, p): the first index >= p at which sep occurs in s, 0 when none
RECURSIVE Find(_, _, _)
Find(s, sep, p) ==
    IF p + Len(sep) - 1 > Len(s) THEN 0
    ELSE IF SubSeq(s, p, p + Len(sep) - 1) = sep THEN p
    ELSE Find(s, sep, p + 1)

\* s.split(sep): the occurrences of sep are taken left to right, never
\* overlapping
RECURSIVE str_split(_, _)
str_split(s, sep) ==
    LET i == Find(s, sep, 1)
    IN  IF i = 0 THEN <<s>>
        ELSE <<SubSeq(s, 1, i - 1)>> \o str_split(SubSeq(s, i + Len(sep), Len(s)), sep)

\* sep.join(parts)
RECURSIVE str_join(_, _)
str_join(sep, parts) ==
    IF parts = <<>> THEN <<>>
    ELSE IF Len(parts) = 1 THEN parts[1]
    ELSE parts[1] \o sep \o str_join(sep, Tail(parts))

\* s.strip()
RECURSIVE lstrip(_)
lstrip(s) == IF s # <<>> /\ Head(s) \in Whitespace THEN lstrip(Tail(s)) ELSE s
RECURSIVE rstrip(_)
rstrip(s) ==
    IF s # <<>> /\ s[Len(s)] \in Whitespace THEN rstrip(SubSeq(s, 1, Len(s) - 1)) ELSE s
strip(s) == rstrip(lstrip(s))

\* s.splitlines(): a line break ends a line, so no empty line follows the
\* last break
splitlines(s) ==
    LET pieces == str_split(s, <<"\n">>)
    IN  IF pieces[Len(pieces)] = <<>> THEN SubSeq(pieces, 1, Len(pieces) - 1) ELSE pieces

\* s.startswith(prefix)
startswith(s, prefix) == Len(s) >= Len(prefix) /\ SubSeq(s, 1, Len(prefix)) = prefix

\* s[k:]
Suffix(s, k) == SubSeq(s, k + 1, Len(s))

\* ---------------------------------------------------------- parse_markdown
Marker == <<"-", "-", "-">>
HeadingMarker == <<"#", " ">>
BulletMarker == <<"-", " ">>

\* The metadata texts of the model, as the text between the two markers.
FmBlank == <<"\n">>
FmBgm == <<"\n", "b", "g", "m", ":", " ", "a", "\n">>
FmTags == <<"\n", "h", "a", "s", "h", "t", "a", "g", "s", ":", " ", "[", "b", "]", "\n">>
FmScalar == <<"\n", "a", "\n">>
FmBroken == <<"\n", "[", "\n">>

NoValue == <<>>
Frontmatter(type, bgm, hashtags) == [type |-> type, bgm |-> bgm, hashtags |-> hashtags]

\* yaml.safe_load(text) or {} on the metadata texts of the model: an empty or
\* blank text loads as None (so {}), "key: value" lines as a mapping, a bare
\* word as a str, and an unclosed "[" raises a yaml.YAMLError.
safe_load(s) ==
    LET core == strip(s)
    IN  CASE core = <<>> ->
               [raised |-> "none", value |-> Frontmatter("dict", NoValue, <<>>)]
          [] core = strip(FmBgm) ->
               [raised |-> "none", value |-> Frontmatter("dict", <<"a">>, <<>>)]
          [] core = strip(FmTags) ->
               [raised |-> "none", value |-> Frontmatter("dict", NoValue, <<<<"b">>>>)]
          [] core = strip(FmScalar) ->
               [raised |-> "none", value |-> Frontmatter("str", NoValue, <<>>)]
          [] core = strip(FmBroken) ->
               [raised |-> "YAMLError", value |-> Frontmatter("dict", NoValue, <<>>)]

\* scan_body without the "and not title" guard: the last heading wins
RECURSIVE scan_body_last_heading(_, _, _)
scan_body_last_heading(lines, title, bullets) ==
    IF lines = <<>> THEN [title |-> title, bullets |-> bullets]
    ELSE
      LET line == strip(Head(lines))
      IN  IF line = <<>> THEN scan_body_last_heading(Tail(lines), title, bullets)
          ELSE IF startswith(line, <<"#", " ">>)
            THEN scan_body_last_heading(Tail(lines), strip(Suffix(line, 2)), bullets)
          ELSE IF startswith(line, <<"-", " ">>)
            THEN scan_body_last_heading(Tail(lines), title,
                                        Append(bullets, strip(Suffix(line, 2))))
          ELSE scan_body_last_heading(Tail(lines), title, bullets)

\* The loop over body.splitlines(): the first heading line sets the title,
\* every bullet line is appended, anything else is skipped.
RECURSIVE scan_body(_, _, _)
scan_body(lines, title, bullets) ==
    IF lines = <<>> THEN [title |-> title, bullets |-> bullets]
    ELSE
      LET line == strip(Head(lines))
      IN  IF line = <<>> THEN scan_body(Tail(lines), title, bullets)
          ELSE IF startswith(line, HeadingMarker) /\ title = <<>>
            THEN scan_body(Tail(lines), strip(Suffix(line, 2)), bullets)
          ELSE IF startswith(line, BulletMarker)
            THEN scan_body(Tail(lines), title, Append(bullets, strip(Suffix(line, 2))))
          ELSE scan_body(Tail(lines), title, bullets)

ParseResult(raised, message, frontmatter, title, bullets) ==
    [raised |-> raised, message |-> message, frontmatter |-> frontmatter,
     title |-> title, bullets |-> bullets]

ParseRaise(raised, message) ==
    ParseResult(raised, message, Frontmatter("dict", NoValue, <<>>), <<>>, <<>>)

\* parse_markdown with the two final checks in the other order
parse_markdown_bullets_first(raw) ==
    LET parts == str_split(raw, Marker)
    IN  IF Len(parts) < 3 THEN ParseRaise("ValueError", "no frontmatter block")
        ELSE
          LET loaded == safe_load(parts[2])
              body == strip(str_join(Marker, SubSeq(parts, 3, Len(parts))))
              scanned == scan_body(splitlines(body), <<>>, <<>>)
          IN  IF loaded.raised # "none" THEN ParseRaise(loaded.raised, "yaml")
              ELSE IF scanned.bullets = <<>> THEN ParseRaise("ValueError", "no bullet line")
              ELSE IF scanned.title = <<>> THEN ParseRaise("ValueError", "no H1 heading")
              ELSE ParseResult("none", "", loaded.value, scanned.title, scanned.bullets)

\* parse_markdown on the text read from md_path
parse_markdown(raw) ==
    LET parts == str_split(raw, Marker)
    IN  IF Len(parts) < 3 THEN ParseRaise("ValueError", "no frontmatter block")
        ELSE
          LET loaded == safe_load(parts[2])
              body == strip(str_join(Marker, SubSeq(parts, 3, Len(parts))))
              scanned == scan_body(splitlines(body), <<>>, <<>>)
          IN  IF loaded.raised # "none" THEN ParseRaise(loaded.raised, "yaml")
              ELSE IF scanned.title = <<>> THEN ParseRaise("ValueError", "no H1 heading")
              ELSE IF scanned.bullets = <<>> THEN ParseRaise("ValueError", "no bullet line")
              ELSE ParseResult("none", "", loaded.value, scanned.title, scanned.bullets)

\* ------------------------------------------------- documents of the model
\* What precedes the body: no marker, one marker, five hyphens (one marker and
\* two hyphens), six hyphens (two markers around nothing), and two markers
\* around each metadata text.
HeaderNone == <<>>
HeaderOne == Marker \o <<"\n">>
HeaderFive == Marker \o <<"-", "-", "\n">>
HeaderSix == Marker \o Marker \o <<"\n">>
HeaderOf(fm) == Marker \o fm \o Marker \o <<"\n">>
ShortHeaders == {HeaderNone, HeaderOne, HeaderFive}
FullHeaders == {HeaderSix, HeaderOf(FmBlank), HeaderOf(FmBgm), HeaderOf(FmBroken)}

\* The raw lines bodies are made of: blank, headings, bullets (one indented
\* and followed by a space, one holding the marker), a plain line, and a
\* heading marker with nothing after it.
LineBlank == <<>>
LineHeadingA == <<"#", " ", "a">>
LineHeadingB == <<"#", " ", "b">>
LineBulletA == <<"-", " ", "a">>
LineBulletB == <<" ", "-", " ", "b", " ">>
LineBulletMarker == <<"-", " ", "a", "-", "-", "-", "b">>
LinePlain == <<"a">>
LineBareHeading == <<"#", " ">>
PlainLines ==
    {LineBlank, LineHeadingA, LineHeadingB, LineBulletA, LineBulletB, LinePlain,
     LineBareHeading}
BodyLines == PlainLines \cup {LineBulletMarker}

RECURSIVE LineSeqs(_, _)
LineSeqs(lines, n) ==
    IF n = 0 THEN {<<>>}
    ELSE LET shorter == LineSeqs(lines, n - 1)
         IN  shorter \cup {Append(ls, l) : ls \in shorter, l \in lines}

Document(hdr, lines) == hdr \o str_join(<<"\n">>, lines)

\* ------------------------------------------------------------ create_slide
DefaultMaxChars == 22
DefaultSlideSec == 7
SlideMaxLines == 2

\* mapping.get(key, default)
Get(mapping, key, default) == IF key \in DOMAIN mapping THEN mapping[key] ELSE default

NoLines == [raised |-> "none", lines |-> <<>>]

\* create_slide as far as the text goes: the title and the bullet are
\* wrapped to at most two lines of max_chars_per_line characters and drawn.
\* The canvas, the fonts and the colours do not reach the text.
create_slide(title, bullet, cfg_layout) ==
    LET width == Get(cfg_layout, "max_chars_per_line", DefaultMaxChars)
        title_lines == wrap_lines(title, width, SlideMaxLines)
        bullet_lines == wrap_lines(bullet, width, SlideMaxLines)
    IN  [raised |-> IF title_lines.raised # "none" THEN title_lines.raised
                    ELSE bullet_lines.raised,
         max_chars |-> width,
         title_lines |-> title_lines.lines,
         bullet_lines |-> bullet_lines.lines]

\* --------------------------------------------------------------- the run
Modules == <<"numpy", "pyyaml", "pillow", "moviepy">>

\* The except clauses of main: the exit status for an exception that left
\* build_video.
main_except(exc) ==
    CASE exc = "FileNotFoundError" -> 3
      [] exc = "ValueError" -> 4
      [] OTHER -> 5

\* What main prints before it exits with that status.
main_message(exc) ==
    CASE exc = "FileNotFoundError" -> "the exception's text"
      [] exc = "ValueError" -> "markdown format problem"
      [] OTHER -> "unexpected error"

\* The settings of the model: each key of cfg["layout"] is set or left out.
LayoutKeys == {"slide_sec", "max_chars_per_line"}
Layouts ==
    {[k \in keys |-> full[k]] :
        keys \in SUBSET LayoutKeys,
        full \in {f \in [LayoutKeys -> {0, 3, 5}] :
                     /\ f["slide_sec"] = 5
                     /\ f["max_chars_per_line"] \in {0, 3}}}

\* The documents of a run: any header, and a body of headings and bullets,
\* one bullet too long for two lines of three characters.
LineBulletLong == <<"-", " ", "a", "a", " ", "a", "a", " ", "a", "a">>
RunLines == {LineHeadingA, LineBulletA, LineBulletB, LineBulletLong}
RunHeaders ==
    {HeaderNone, HeaderOf(FmBlank), HeaderOf(FmBgm), HeaderOf(FmTags),
     HeaderOf(FmScalar), HeaderOf(FmBroken)}
RunDocuments ==
    {Document(h, ls) : h \in RunHeaders, ls \in LineSeqs(RunLines, MaxRunLines)}

NoVideo == [clips |-> <<>>, duration |-> 0, audio |-> NoValue]
NoFile == [state |-> "absent", video |-> NoVideo]
NoBgm == [named |-> FALSE, exists |-> FALSE, failed |-> FALSE]
NoSummary == [printed |-> FALSE, title |-> <<>>, bullet_count |-> 0,
              total_duration |-> 0, hashtags |-> <<>>]
NoWrap == [called |-> FALSE,
           slide |-> [raised |-> "none", max_chars |-> 0, title_lines |-> <<>>,
                      bullet_lines |-> <<>>]]

RECURSIVE SumDuration(_)
SumDuration(cs) == IF cs = <<>> THEN 0 ELSE Head(cs).duration + SumDuration(Tail(cs))

\* sys.exit(status) after a message on stderr
Exit(status, kind, message) ==
    /\ pc' = "exit"
    /\ exit_codes' = Append(exit_codes, status)
    /\ cause' = kind
    /\ stderr' = message

\* An exception leaves build_video and reaches the except clauses of main.
Raise(exc, kind) == Exit(main_except(exc), kind, main_message(exc))

\* The four guarded imports at the top of the module: a module that is not
\* installed ends the process in _missing_dependency.
ImportDependency ==
    /\ pc = "import"
    /\ imported < Len(Modules)
    /\ \E installed \in BOOLEAN :
          IF installed
          THEN /\ imported' = imported + 1
               /\ pc' = IF imported + 1 = Len(Modules) THEN "main" ELSE "import"
               /\ UNCHANGED <<exit_codes, cause, stderr>>
          ELSE /\ Exit(2, "missing dependency", "dependency guidance")
               /\ UNCHANGED imported
    /\ log' = Append(log, "import")
    /\ UNCHANGED <<source, argv_len, layout, doc, duration, clips, video, bgm_mix, output,
                   summary, last_wrap, wrapVars, parseVars>>

\* main: if len(sys.argv) != 2
MainCheckArgs ==
    /\ pc = "main"
    /\ IF argv_len # 2
       THEN Exit(1, "wrong argument count", "usage")
       ELSE pc' = "check_input" /\ UNCHANGED <<exit_codes, cause, stderr>>
    /\ log' = Append(log, "argc")
    /\ UNCHANGED <<source, argv_len, imported, layout, doc, duration, clips, video, bgm_mix,
                   output, summary, last_wrap, wrapVars, parseVars>>

\* main: if not md_path.exists()
MainCheckInput ==
    /\ pc = "check_input"
    /\ \E exists \in BOOLEAN :
          IF exists
          THEN pc' = "load_config" /\ UNCHANGED <<exit_codes, cause, stderr>>
          ELSE Exit(2, "missing input file", "input file not found")
    /\ log' = Append(log, "exists")
    /\ UNCHANGED <<source, argv_len, imported, layout, doc, duration, clips, video, bgm_mix,
                   output, summary, last_wrap, wrapVars, parseVars>>

\* build_video: cfg = load_config(Path("config/style.yaml"))
LoadConfig ==
    /\ pc = "load_config"
    /\ \E exists \in BOOLEAN :
          IF exists
          THEN /\ layout' \in Layouts
               /\ pc' = "parse"
               /\ UNCHANGED <<exit_codes, cause, stderr>>
          ELSE /\ Raise("FileNotFoundError", "missing settings file")
               /\ UNCHANGED layout
    /\ log' = Append(log, "load_config")
    /\ UNCHANGED <<source, argv_len, imported, doc, duration, clips, video, bgm_mix, output,
                   summary, last_wrap, wrapVars, parseVars>>

\* What is wrong with a document parse_markdown refused.
ParseFailure(result) ==
    CASE result.message = "no frontmatter block" -> "missing metadata block"
      [] result.message = "no H1 heading" -> "missing title"
      [] result.message = "no bullet line" -> "missing bullets"
      [] OTHER -> "metadata not YAML"

\* build_video: frontmatter, title, bullets = parse_markdown(md_path)
ParseDocument ==
    /\ pc = "parse"
    /\ source' \in RunDocuments
    /\ doc' = parse_markdown(source')
    /\ IF doc'.raised = "none"
       THEN pc' = "duration" /\ UNCHANGED <<exit_codes, cause, stderr>>
       ELSE Raise(doc'.raised, ParseFailure(doc'))
    /\ log' = Append(log, "parse")
    /\ UNCHANGED <<argv_len, imported, layout, duration, clips, video, bgm_mix, output,
                   summary, last_wrap, wrapVars, parseVars>>

\* ReadDuration with the setting ignored: always the default
ReadDuration_ignores_config ==
    /\ pc = "duration"
    /\ duration' = DefaultSlideSec
    /\ pc' = "compose"
    /\ log' = Append(log, "duration")
    /\ UNCHANGED <<source, argv_len, imported, exit_codes, cause, stderr, layout, doc,
                   clips, video, bgm_mix, output, summary, last_wrap, wrapVars, parseVars>>

\* build_video: duration = float(cfg.get("layout", {}).get("slide_sec", 7))
ReadDuration ==
    /\ pc = "duration"
    /\ duration' = Get(layout, "slide_sec", DefaultSlideSec)
    /\ pc' = "compose"
    /\ log' = Append(log, "duration")
    /\ UNCHANGED <<source, argv_len, imported, exit_codes, cause, stderr, layout, doc, clips,
                   video, bgm_mix, output, summary, last_wrap, wrapVars, parseVars>>

\* build_video: one pass of the loop over bullets
ComposeSlide ==
    /\ pc = "compose"
    /\ Len(clips) < Len(doc.bullets)
    /\ last_wrap' = [called |-> TRUE,
                     slide |-> create_slide(doc.title, doc.bullets[Len(clips) + 1], layout)]
    /\ IF last_wrap'.slide.raised = "none"
       THEN /\ clips' = Append(clips, [title |-> doc.title,
                                       bullet |-> doc.bullets[Len(clips) + 1],
                                       title_lines |-> last_wrap'.slide.title_lines,
                                       bullet_lines |-> last_wrap'.slide.bullet_lines,
                                       duration |-> duration])
            /\ UNCHANGED <<pc, exit_codes, cause, stderr>>
       ELSE /\ Raise(last_wrap'.slide.raised, "invalid width")
            /\ UNCHANGED clips
    /\ log' = Append(log, "compose")
    /\ UNCHANGED <<source, argv_len, imported, layout, doc, duration, video, bgm_mix, output,
                   summary, wrapVars, parseVars>>

\* Concatenate as soon as one clip is there, the loop not finished
Concatenate_early ==
    /\ pc = "compose"
    /\ Len(clips) >= 1
    /\ video' = [clips |-> clips, duration |-> SumDuration(clips), audio |-> NoValue]
    /\ pc' = "bgm"
    /\ log' = Append(log, "concatenate")
    /\ UNCHANGED <<source, argv_len, imported, exit_codes, cause, stderr, layout, doc,
                   duration, clips, bgm_mix, output, summary, last_wrap, wrapVars,
                   parseVars>>

\* build_video: video = concatenate_videoclips(clips, method="compose")
Concatenate ==
    /\ pc = "compose"
    /\ Len(clips) = Len(doc.bullets)
    /\ video' = [clips |-> clips, duration |-> SumDuration(clips), audio |-> NoValue]
    /\ pc' = "bgm"
    /\ log' = Append(log, "concatenate")
    /\ UNCHANGED <<source, argv_len, imported, exit_codes, cause, stderr, layout, doc,
                   duration, clips, bgm_mix, output, summary, last_wrap, wrapVars, parseVars>>

\* MixBgm without the try block: a failure to load or mix the audio leaves
\* build_video
MixBgm_unguarded ==
    /\ pc = "bgm"
    /\ IF doc.frontmatter.type # "dict"
       THEN /\ Raise("AttributeError", "metadata not a mapping")
            /\ UNCHANGED <<video, bgm_mix>>
       ELSE IF doc.frontmatter.bgm = NoValue
       THEN /\ pc' = "write"
            /\ UNCHANGED <<exit_codes, cause, stderr, video, bgm_mix>>
       ELSE \E exists \in BOOLEAN, loads \in BOOLEAN :
              /\ bgm_mix' = [named |-> TRUE, exists |-> exists,
                             failed |-> exists /\ ~loads]
              /\ IF exists /\ ~loads
                 THEN Raise("OSError", "audio failure") /\ UNCHANGED video
                 ELSE /\ pc' = "write"
                      /\ UNCHANGED <<exit_codes, cause, stderr>>
                      /\ video' = IF exists
                                  THEN [video EXCEPT !.audio = doc.frontmatter.bgm]
                                  ELSE video
    /\ log' = Append(log, "bgm")
    /\ UNCHANGED <<source, argv_len, imported, layout, doc, duration, clips, output,
                   summary, last_wrap, wrapVars, parseVars>>

\* build_video: the bgm block.  frontmatter.get fails on metadata that is
\* not a mapping; a failure inside the try block is swallowed.
MixBgm ==
    /\ pc = "bgm"
    /\ IF doc.frontmatter.type # "dict"
       THEN /\ Raise("AttributeError", "metadata not a mapping")
            /\ UNCHANGED <<video, bgm_mix>>
       ELSE /\ pc' = "write"
            /\ UNCHANGED <<exit_codes, cause, stderr>>
            /\ IF doc.frontmatter.bgm = NoValue
               THEN UNCHANGED <<video, bgm_mix>>
               ELSE \E exists \in BOOLEAN, loads \in BOOLEAN :
                      /\ bgm_mix' = [named |-> TRUE, exists |-> exists,
                                 failed |-> exists /\ ~loads]
                      /\ video' = IF exists /\ loads
                                  THEN [video EXCEPT !.audio = doc.frontmatter.bgm]
                                  ELSE video
    /\ log' = Append(log, "bgm")
    /\ UNCHANGED <<source, argv_len, imported, layout, doc, duration, clips, output, summary,
                   last_wrap, wrapVars, parseVars>>

\* build_video: video.write_videofile(...).  The encoder may fail, and then
\* leaves no file or part of one.
WriteVideo ==
    /\ pc = "write"
    /\ \E encoded \in BOOLEAN :
          IF encoded
          THEN /\ output' = [state |-> "complete", video |-> video]
               /\ pc' = "summary"
               /\ UNCHANGED <<exit_codes, cause, stderr>>
          ELSE /\ output' \in {NoFile, [state |-> "partial", video |-> video]}
               /\ Raise("OSError", "encoder failure")
    /\ log' = Append(log, "write")
    /\ UNCHANGED <<source, argv_len, imported, layout, doc, duration, clips, video, bgm_mix,
                   summary, last_wrap, wrapVars, parseVars>>

\* build_video returns the path and info; main calls print_summary and the
\* process ends with status 0.
PrintSummary ==
    /\ pc = "summary"
    /\ summary' = [printed |-> TRUE,
                   title |-> doc.title,
                   bullet_count |-> Len(doc.bullets),
                   total_duration |-> duration * Len(doc.bullets),
                   hashtags |-> doc.frontmatter.hashtags]
    /\ pc' = "exit"
    /\ exit_codes' = Append(exit_codes, 0)
    /\ log' = Append(log, "summary")
    /\ UNCHANGED <<source, argv_len, imported, cause, stderr, layout, doc, duration, clips,
                   video, bgm_mix, output, last_wrap, wrapVars, parseVars>>

CliStart ==
    /\ imported = 0 /\ exit_codes = <<>> /\ cause = "none" /\ stderr = ""
    /\ log = <<>> /\ layout = [k \in {} |-> 0] /\ source = <<>>
    /\ doc = ParseRaise("none", "")
    /\ duration = 0 /\ clips = <<>> /\ video = NoVideo /\ bgm_mix = NoBgm
    /\ output = NoFile /\ summary = NoSummary /\ last_wrap = NoWrap

CliIdle == pc = "idle" /\ argv_len = 0 /\ CliStart

\* ------------------------------------------------------------------ idle
\* The parts of the state a specification does not use stay as they start.
WrapIdle ==
    /\ text = <<>> /\ max_chars = 1 /\ max_lines = 1
    /\ wpc = "idle" /\ wrapped = NoLines
ParseIdle ==
    /\ header = <<>> /\ body_lines = <<>> /\ content = <<>>
    /\ ppc = "idle" /\ parsed = ParseRaise("none", "")

\* ------------------------------------------- specification: wrap_lines
InitWrap ==
    /\ text \in Texts(WrapAlphabet, MaxLen)
    /\ max_chars \in 1..MaxWidth
    /\ max_lines \in 1..MaxLines
    /\ wpc = "call"
    /\ wrapped = NoLines
    /\ ParseIdle
    /\ CliIdle

CallWrapLines ==
    /\ wpc = "call"
    /\ wrapped' = wrap_lines(text, max_chars, max_lines)
    /\ wpc' = IF wrapped'.raised = "none" THEN "returned" ELSE "raised"
    /\ UNCHANGED <<text, max_chars, max_lines, parseVars, cliVars>>

NextWrap == CallWrapLines
SpecWrap == InitWrap /\ [][NextWrap]_vars

\* ---------------------------------------- specification: parse_markdown
\* A document is a header and a body of raw lines.  Under a header with
\* fewer than two markers the body holds no marker, so that the metadata
\* text of every document is one of the texts safe_load is modelled on.
InitParse ==
    /\ header \in ShortHeaders \cup FullHeaders
    /\ body_lines \in LineSeqs(BodyLines, MaxBodyLines)
    /\ header \in ShortHeaders =>
          \A i \in 1..Len(body_lines) : body_lines[i] \in PlainLines
    /\ content = Document(header, body_lines)
    /\ ppc = "call"
    /\ parsed = ParseRaise("none", "")
    /\ WrapIdle
    /\ CliIdle

CallParseMarkdown ==
    /\ ppc = "call"
    /\ parsed' = parse_markdown(content)
    /\ ppc' = IF parsed'.raised = "none" THEN "returned" ELSE "raised"
    /\ UNCHANGED <<header, body_lines, content, wrapVars, cliVars>>

NextParse == CallParseMarkdown
SpecParse == InitParse /\ [][NextParse]_vars

\* ------------------------------------------------ specification: the run
Init ==
    /\ pc = "import"
    /\ argv_len \in 1..MaxArgv
    /\ CliStart
    /\ WrapIdle
    /\ ParseIdle

Next ==
    \/ ImportDependency
    \/ MainCheckArgs
    \/ MainCheckInput
    \/ LoadConfig
    \/ ParseDocument
    \/ ReadDuration
    \/ ComposeSlide
    \/ Concatenate
    \/ MixBgm
    \/ WriteVideo
    \/ PrintSummary

Spec == Init /\ [][Next]_vars

\* ================================================== claims: wrap_lines
NoWhitespace(t) == \A i \in 1..Len(t) : t[i] \notin Whitespace
Lines == wrapped.lines
\* the greedy wrap of the call in hand
Greedy == raw_lines(text, max_chars)

\* C1: with max_chars >= 1 and max_lines >= 1, wrap_lines returns at least
\* one and at most max_lines lines, and every returned line but the last
\* is at most max_chars long.
C1_LineBudget ==
    wpc # "call" =>
        /\ wpc = "returned"
        /\ Len(Lines) >= 1
        /\ Len(Lines) <= max_lines
        /\ \A i \in 1..(Len(Lines) - 1) : Len(Lines[i]) <= max_chars

\* C1 witness: a call that had to drop lines and returned max_lines >= 2 lines.
C1_Witness ==
    /\ wpc = "returned"
    /\ max_lines >= 2
    /\ Len(Greedy) > max_lines
    /\ Len(Lines) = max_lines

\* C2: when the greedy wrap needs more than max_lines lines, the result is
\* its first max_lines lines, the last of them cut to at most max_chars - 1
\* characters and followed by one ellipsis, so that it ends with the
\* ellipsis and is at most max_chars long; when the greedy wrap needs at
\* most max_lines lines it is returned as it is.
C2_Truncation ==
    wpc # "call" =>
        IF Len(Greedy) > max_lines
        THEN /\ Len(Lines) = max_lines
             /\ \A i \in 1..(max_lines - 1) : Lines[i] = Greedy[i]
             /\ \E k \in 0..(max_chars - 1) :
                    /\ k = Min(Len(Greedy[max_lines]), max_chars - 1)
                    /\ Lines[max_lines] = SubSeq(Greedy[max_lines], 1, k) \o <<ellipsis>>
             /\ Lines[max_lines][Len(Lines[max_lines])] = ellipsis
             /\ Len(Lines[max_lines]) <= max_chars
        ELSE /\ Lines = Greedy
             /\ \A i \in 1..Len(Lines) : \A j \in 1..Len(Lines[i]) : Lines[i][j] # ellipsis

\* C2 witness: the last kept line was full, so the cut removed a character.
C2_Witness ==
    /\ wpc = "returned"
    /\ Len(Greedy) > max_lines
    /\ Len(Greedy[max_lines]) = max_chars
    /\ max_chars >= 2

\* C3 as claimed: an empty text, and a text without whitespace whatever its
\* length, comes back as the single line [text].
C3_Claimed ==
    (wpc # "call" /\ (text = <<>> \/ NoWhitespace(text)))
        => (wpc = "returned" /\ Lines = <<text>>)

\* C3 as amended: with max_chars >= 1, an empty text, and a text without
\* whitespace that is at most max_chars long, comes back as the single line
\* [text].
C3_ShortUnbreakable ==
    (wpc # "call" /\ (text = <<>> \/ (NoWhitespace(text) /\ Len(text) <= max_chars)))
        => (wpc = "returned" /\ Lines = <<text>>)

\* C3 witness: a text of letters and a hyphen that fits the width was wrapped.
C3_Witness ==
    /\ wpc = "returned"
    /\ NoWhitespace(text)
    /\ Len(text) >= 3
    /\ Len(text) <= max_chars
    /\ \E i \in 1..Len(text) : text[i] = "-"
    /\ \E i \in 1..Len(text) : text[i] = "a"

\* ============================================== claims: parse_markdown
\* occurrences of the marker, left to right and not overlapping
RECURSIVE Occurrences(_, _)
Occurrences(s, p) ==
    LET i == Find(s, Marker, p)
    IN  IF i = 0 THEN 0 ELSE 1 + Occurrences(s, i + Len(Marker))

IsHeadingLine(l) == startswith(strip(l), HeadingMarker)
IsBulletLine(l) == startswith(strip(l), BulletMarker)
LineContent(l) == strip(Suffix(strip(l), 2))
HeadingLines == SelectSeq(body_lines, IsHeadingLine)
BulletLines == SelectSeq(body_lines, IsBulletLine)
Raised(type, message) == parsed.raised = type /\ parsed.message = message

\* C5 as claimed: fewer than two markers is the missing-delimiter failure;
\* otherwise no heading line is missing-title; otherwise no bullet line
\* is missing-bullets; and there is no other failure.
C5_Claimed ==
    ppc # "call" =>
        IF Occurrences(content, 1) < 2 THEN Raised("ValueError", "no frontmatter block")
        ELSE IF HeadingLines = <<>> THEN Raised("ValueError", "no H1 heading")
        ELSE IF BulletLines = <<>> THEN Raised("ValueError", "no bullet line")
        ELSE parsed.raised = "none"

\* C5 as amended: fewer than two markers is the missing-delimiter failure;
\* otherwise a metadata text that is not YAML makes the loader's own error
\* leave parse_markdown; otherwise no heading line is missing-title;
\* otherwise no bullet line is missing-bullets; there is no other failure,
\* and the failures differ in their message.
C5_FailureOrder ==
    ppc # "call" =>
        IF Occurrences(content, 1) < 2 THEN Raised("ValueError", "no frontmatter block")
        ELSE IF header = HeaderOf(FmBroken) THEN parsed.raised = "YAMLError"
        ELSE IF HeadingLines = <<>> THEN Raised("ValueError", "no H1 heading")
        ELSE IF BulletLines = <<>> THEN Raised("ValueError", "no bullet line")
        ELSE parsed.raised = "none"

\* C5 witness: a document with its metadata block and a bullet but no
\* heading failed as missing-title.
C5_Witness ==
    /\ ppc = "raised"
    /\ Raised("ValueError", "no H1 heading")
    /\ BulletLines # <<>>
    /\ Occurrences(content, 1) >= 2

\* C6: of an accepted document, the title is the content of the first
\* heading line, the bullets are the contents of the bullet lines in their
\* order, one each, and neither the title nor the bullets are empty.
C6_Accepted ==
    ppc = "returned" =>
        /\ HeadingLines # <<>>
        /\ parsed.title = LineContent(HeadingLines[1])
        /\ Len(parsed.bullets) = Len(BulletLines)
        /\ \A i \in 1..Len(BulletLines) : parsed.bullets[i] = LineContent(BulletLines[i])
        /\ parsed.title # <<>>
        /\ parsed.bullets # <<>>
        /\ \A i \in 1..Len(parsed.bullets) : parsed.bullets[i] # <<>>

\* C6 witness: an accepted document with two different headings and a
\* bullet after the second.
C6_Witness ==
    /\ ppc = "returned"
    /\ Len(HeadingLines) >= 2
    /\ LineContent(HeadingLines[1]) # LineContent(HeadingLines[2])
    /\ BulletLines # <<>>

\* ===================================================== claims: the run
Exited == pc = "exit"
Status == exit_codes[1]
Has(event) == \E i \in 1..Len(log) : log[i] = event
Count(event, upto) == Cardinality({i \in 1..upto : log[i] = event})
Work == {"load_config", "parse", "duration", "compose", "concatenate", "bgm", "write",
         "summary"}
MalformedDocument == {"missing metadata block", "missing title", "missing bullets"}
NamedFailures ==
    {"wrong argument count", "missing input file", "missing settings file"}
        \cup MalformedDocument

\* C4 as claimed: a call of wrap_lines with max_chars <= 0 does not fail; it
\* returns at least one line and, the text not being empty, no empty line.
C4_Claimed ==
    (last_wrap.called /\ last_wrap.slide.max_chars <= 0) =>
        /\ last_wrap.slide.raised = "none"
        /\ Len(last_wrap.slide.title_lines) >= 1
        /\ Len(last_wrap.slide.bullet_lines) >= 1
        /\ \A i \in 1..Len(last_wrap.slide.title_lines) :
               last_wrap.slide.title_lines[i] # <<>>
        /\ \A i \in 1..Len(last_wrap.slide.bullet_lines) :
               last_wrap.slide.bullet_lines[i] # <<>>

\* C7 as claimed: a run ends with one exit status, and the status names the
\* failure: 0 for success only, 1 for a wrong argument count only, 2 for a
\* missing input file only, 3 for a missing settings file only, 4 for a
\* malformed document only, 5 for every other failure.
C7_Claimed ==
    Exited =>
        /\ Len(exit_codes) = 1
        /\ Status = 0 <=> cause = "none"
        /\ Status = 1 <=> cause = "wrong argument count"
        /\ Status = 2 <=> cause = "missing input file"
        /\ Status = 3 <=> cause = "missing settings file"
        /\ Status = 4 <=> cause \in MalformedDocument
        /\ Status = 5 <=> cause \notin NamedFailures \cup {"none"}

C9_AudioSwallowed ==
    /\ bgm_mix.failed =>
          /\ pc \in {"write", "summary", "exit"}
          /\ video.audio = NoValue
          /\ cause \in {"none", "encoder failure"}
    /\ (Exited /\ bgm_mix.failed) =>
          /\ Has("write")
          /\ cause = "none" =>
                /\ exit_codes = <<0>>
                /\ summary.printed
                /\ output.state = "complete"
                /\ output.video.audio = NoValue
    /\ (output.state = "complete" /\ ~(bgm_mix.named /\ bgm_mix.exists)) =>
          output.video.audio = NoValue

\* C9 witness: the audio failed and the run ended with status 0.
C9_Witness ==
    /\ Exited
    /\ bgm_mix.failed
    /\ exit_codes = <<0>>

\* C10: a run that succeeds on a document of k bullets has composed k
\* slides, the i-th from the i-th bullet and the title, each clip lasting
\* slide_sec seconds (7 when the setting is absent), has written them in
\* that order, and reports k slides and k * slide_sec seconds.
C10_Slides ==
    (Exited /\ exit_codes = <<0>>) =>
        /\ Len(clips) = Len(doc.bullets)
        /\ \A i \in 1..Len(clips) :
              /\ clips[i].bullet = doc.bullets[i]
              /\ clips[i].title = doc.title
              /\ clips[i].duration = Get(layout, "slide_sec", DefaultSlideSec)
        /\ output.video.clips = clips
        /\ summary.printed
        /\ summary.bullet_count = Len(doc.bullets)
        /\ summary.total_duration =
              Len(doc.bullets) * Get(layout, "slide_sec", DefaultSlideSec)

\* C10 witness: a run succeeded on two different bullets with slide_sec set.
C10_Witness ==
    /\ Exited
    /\ exit_codes = <<0>>
    /\ Len(doc.bullets) >= 2
    /\ doc.bullets[1] # doc.bullets[2]
    /\ "slide_sec" \in DOMAIN layout

====
